---- MODULE Spec2Model ----
(***************************************************************************)
(* Model of the job ingestion pipeline of the LinkedIn-scraper package:    *)
(* network_interceptor.py (block detection), linkedin_scraper.py           *)
(* (discovery), ats_scraper.py (per-company ATS retrieval) and             *)
(* job_pipeline.py (orchestration, dedup, result assembly).                *)
(*                                                                         *)
(* Strings that the code searches or concatenates are sequences of tokens, *)
(* the separators "/", "." and ":" being tokens of their own:              *)
(* "https://x.com/uas/login" is                                            *)
(* <<"https", ":", "/", "/", "x", ".", "com", "/", "uas", "/", "login">>.  *)
(* re.search(pattern, s) is "pattern matches a contiguous run of s", and   *)
(* str.lower() maps every token to its lower-case form.                    *)
(***************************************************************************)
EXTENDS Integers, Sequences, FiniteSets, TLC

\* ------------------------------------------------------------------ bounds
\* run(max_jobs=...): the cap on discovery used in the pipeline runs
MaxJobs == 2
\* run(max_ats_jobs_per_company=...): the cap on one company's ATS fetch
MaxAtsJobs == 2
\* the number of network responses observed in one run
MaxEvents == 2
\* the number of path segments of the URLs the block monitor is given
MaxPathSegs == 2
\* the rate limiters: min_interval (rate_limit_ms) and the last clock value,
\* in ticks of the integer clock
MinInterval == 2
MaxTime == 6
\* the caps of the end-to-end run: max_jobs and max_ats_jobs_per_company
E2EMaxJobs == 3
E2EMaxAtsJobs == 5
MaxRuns == 2

None == "none"
\* an absent (None) URL; the code never builds an empty URL string
NoUrl == <<>>

\* ------------------------------------------------------- strings as tokens
\* str.lower() on one token
LowerTok(t) ==
  CASE t = "LOGIN" -> "login"
    [] t = "AuthWall" -> "authwall"
    [] t = "Acme" -> "acme"
    [] t = "ACME" -> "acme"
    [] t = "Tiny" -> "tiny"
    [] t = "Boards" -> "boards"
    [] t = "LEVER" -> "lever"
    [] OTHER -> t

\* str.lower()
Lower(s) == [i \in 1..Len(s) |-> LowerTok(s[i])]

Digits == {"0", "1", "2", "3", "5", "123"}

\* the pattern pat, from its k-th element on, matches s from position i on;
\* the elements are literal tokens, ".*" and "\\d+"
RECURSIVE MatchAt(_, _, _, _)
MatchAt(pat, k, s, i) ==
  IF k > Len(pat) THEN TRUE
  ELSE IF pat[k] = ".*"
       THEN \E j \in i..(Len(s) + 1) : MatchAt(pat, k + 1, s, j)
  ELSE IF pat[k] = "\\d+"
       THEN i <= Len(s) /\ s[i] \in Digits /\ MatchAt(pat, k + 1, s, i + 1)
  ELSE i <= Len(s) /\ s[i] = pat[k] /\ MatchAt(pat, k + 1, s, i + 1)

\* re.search(pat, s) is not None
Search(pat, s) == \E i \in 1..(Len(s) + 1) : MatchAt(pat, 1, s, i)

\* ------------------------------------------------------------ URLs in use
GreenhouseUrl ==
  <<"https", ":", "/", "/", "boards", ".", "greenhouse", ".", "io", "/", "co">>
IcimsUrl ==
  <<"https", ":", "/", "/", "careers-", "co", ".", "icims", ".", "com">>
\* the apply URLs that occur in the model
KnownApplyUrls == { GreenhouseUrl, IcimsUrl }

SearchUrl ==
  <<"https", ":", "/", "/", "www", ".", "linkedin", ".", "com", "/", "jobs",
    "/", "search">>
AuthwallUrl ==
  <<"https", ":", "/", "/", "www", ".", "linkedin", ".", "com", "/", "authwall">>
\* the URLs the search page can end on after page.goto
PageUrls == { SearchUrl, AuthwallUrl }
\* the responses given to the block monitor on its own
Hosts == { <<"www", ".", "linkedin", ".", "com">>,
           <<"challenge", ".", "linkedin", ".", "com">> }
Words == { "login", "LOGIN", "signin", "sign-in", "uas", "authwall", "AuthWall",
           "auth-wall", "checkpoint", "security-check", "captcha", "challenge",
           "security-verification", "jobs" }
RECURSIVE Paths(_)
Paths(n) ==
  IF n = 0 THEN { <<>> }
  ELSE Paths(n - 1) \cup { p \o <<"/", w>> : p \in Paths(n - 1), w \in Words }
MonitorUrls == { <<"https", ":", "/", "/">> \o h \o p :
                   h \in Hosts, p \in Paths(MaxPathSegs) }
Statuses == { 200, 401, 403, 429 }
MonitorEvents == [url : MonitorUrls, status : Statuses]
\* the URLs that are searched for block patterns in the model
KnownUrls == MonitorUrls \cup PageUrls

\* the URLs given to detect_ats_from_url on its own: a host, then a path
DetectHosts ==
  { <<"boards", ".", "greenhouse", ".", "io">>,
    <<"Boards", ".", "greenhouse", ".", "io">>,
    <<"job-", "boards", ".", "greenhouse", ".", "io">>,
    <<"app", ".", "greenhouse", ".", "io">>,
    <<"jobs", ".", "lever", ".", "co">>,
    <<"jobs", ".", "LEVER", ".", "co">>,
    <<"acme", ".", "wd", "5", ".", "myworkdayjobs", ".", "com">>,
    <<"acme", ".", "workday", ".", "com">>,
    <<"careers-", "co", ".", "icims", ".", "com">>,
    <<"jobs", ".", "acme", ".", "com">>,
    <<"acme", ".", "taleo", ".", "net">>,
    <<"acme", ".", "bamboohr", ".", "com">>,
    <<"jobs", ".", "jobvite", ".", "com">>,
    <<"jobs", ".", "smartrecruiters", ".", "com">>,
    <<"jobs", ".", "ashbyhq", ".", "com">>,
    <<"www", ".", "linkedin", ".", "com">>,
    <<"linkedin", ".", "com">> }
DetectPaths ==
  { <<>>,
    <<"/", "acme">>,
    <<"/", "acme", "/", "jobs", "/", "123">>,
    <<"/", "en-US", "/", "x">>,
    <<"/", "jobs", "/", "view", "/", "1">>,
    <<"/", "careers">>,
    <<"/", "jobs">>,
    <<"/", "x", "/", "embed">>,
    <<"/", "x", "/", "apply">>,
    <<"/", "x", "/", "icims">>,
    <<"/", "x", "/", "taleo">>,
    <<"/", "r", "/", "boards", ".", "greenhouse", ".", "io">>,
    <<"/", "r", "/", "jobs", ".", "ashbyhq", ".", "com">> }
DetectUrls ==
  { <<"https", ":", "/", "/">> \o h \o p : h \in DetectHosts, p \in DetectPaths }

\* --------------------------------------------------- network_interceptor.py
\* BLOCK_URL_PATTERNS, in the dict's insertion order
BLOCK_URL_PATTERNS ==
  << [reason |-> "login_required",
      patterns |-> << <<"/", "login">>, <<"/", "signin">>, <<"/", "sign-in">>,
                      <<"/", "uas", "/", "login">> >>],
     [reason |-> "authwall",
      patterns |-> << <<"/", "authwall">>, <<"/", "auth-wall">> >>],
     [reason |-> "checkpoint",
      patterns |-> << <<"/", "checkpoint">>, <<"/", "security-check">> >>],
     [reason |-> "captcha_detected",
      patterns |-> << <<"/", "captcha">>, <<"/", "challenge">>,
                      <<"/", "security-verification">>,
                      <<"challenge", ".", "linkedin", ".", "com">> >>] >>

MinOf(S) == CHOOSE x \in S : \A y \in S : x <= y

\* detect_block_from_url as a mutant would have it: the URL is not lower-cased
detect_block_from_url_nolower(url) ==
  LET hits == { i \in 1..Len(BLOCK_URL_PATTERNS) :
                  \E j \in 1..Len(BLOCK_URL_PATTERNS[i].patterns) :
                     Search(BLOCK_URL_PATTERNS[i].patterns[j], url) }
  IN IF hits = {} THEN None ELSE BLOCK_URL_PATTERNS[MinOf(hits)].reason

\* detect_block_from_url: the reason of the first table entry one of whose
\* patterns is found in the lower-cased URL, None when there is none
detect_block_from_url(url) ==
  LET url_lower == Lower(url)
      hits == { i \in 1..Len(BLOCK_URL_PATTERNS) :
                  \E j \in 1..Len(BLOCK_URL_PATTERNS[i].patterns) :
                     Search(BLOCK_URL_PATTERNS[i].patterns[j], url_lower) }
  IN IF hits = {} THEN None ELSE BLOCK_URL_PATTERNS[MinOf(hits)].reason

\* detect_block_from_url on the URLs of the model, computed once
BlockReasonOf == [u \in KnownUrls |-> detect_block_from_url(u)]
url_block_reason(url) ==
  IF url \in KnownUrls THEN BlockReasonOf[url] ELSE detect_block_from_url(url)

\* detect_block_from_response as a mutant would have it: the URL is looked at
\* before the status
detect_block_from_response_urlfirst(response) ==
  IF url_block_reason(response.url) # None
  THEN url_block_reason(response.url)
  ELSE IF response.status = 429 THEN "rate_limited"
  ELSE IF response.status = 401 \/ response.status = 403 THEN "login_required"
  ELSE None

\* detect_block_from_response
detect_block_from_response(response) ==
  IF response.status = 429 THEN "rate_limited"
  ELSE IF response.status = 401 \/ response.status = 403 THEN "login_required"
  ELSE url_block_reason(response.url)

\* ----------------------------------------------------------- ats_detector.py
\* ATS_URL_PATTERNS, in the dict's insertion order
ATS_URL_PATTERNS ==
  << [provider |-> "workday",
      patterns |-> << <<"myworkdayjobs", ".", "com">>,
                      <<"wd", "\\d+", ".", "myworkdaysite", ".", "com">>,
                      <<"wd", "\\d+", ".", "myworkdayjobs", ".", "com">>,
                      <<"workday", ".", "com", "/", ".*", "careers">>,
                      <<".", "wd", "\\d+", ".">> >>],
     [provider |-> "greenhouse",
      patterns |-> << <<"boards", ".", "greenhouse", ".", "io">>,
                      <<"job-", "boards", ".", "greenhouse", ".", "io">>,
                      <<"greenhouse", ".", "io", "/", ".*", "embed">> >>],
     [provider |-> "lever",
      patterns |-> << <<"jobs", ".", "lever", ".", "co">>,
                      <<"lever", ".", "co", "/", ".*", "apply">> >>],
     [provider |-> "icims",
      patterns |-> << <<"careers-", ".*", ".", "icims", ".", "com">>,
                      <<"icims", ".", "com">>,
                      <<"jobs", ".", ".*", ".", "com", "/", ".*", "icims">> >>],
     [provider |-> "taleo",
      patterns |-> << <<"taleo", ".", "net">>,
                      <<"oracle", ".", "com", "/", ".*", "taleo">>,
                      <<"taleo", ".", "com">> >>],
     [provider |-> "bamboohr",
      patterns |-> << <<".*", ".", "bamboohr", ".", "com", "/", "careers">>,
                      <<".*", ".", "bamboohr", ".", "com", "/", "jobs">> >>],
     [provider |-> "jobvite",
      patterns |-> << <<"jobs", ".", "jobvite", ".", "com">>,
                      <<".*", ".", "jobvite", ".", "com">> >>],
     [provider |-> "smartrecruiters",
      patterns |-> << <<"jobs", ".", "smartrecruiters", ".", "com">>,
                      <<"careers", ".", "smartrecruiters", ".", "com">> >>],
     [provider |-> "ashby",
      patterns |-> << <<"jobs", ".", "ashbyhq", ".", "com">>,
                      <<".*", ".", "ashbyhq", ".", "com">> >>] >>

\* detect_ats_from_url as a mutant would have it: the last table entry with a
\* matching pattern wins
detect_ats_from_url_last(url) ==
  IF url = NoUrl THEN "unknown"
  ELSE LET url_lower == Lower(url)
           hits == { i \in 1..Len(ATS_URL_PATTERNS) :
                       \E j \in 1..Len(ATS_URL_PATTERNS[i].patterns) :
                          Search(ATS_URL_PATTERNS[i].patterns[j], url_lower) }
       IN IF hits = {} THEN "unknown"
          ELSE ATS_URL_PATTERNS[CHOOSE x \in hits : \A y \in hits : y <= x].provider

\* detect_ats_from_url: "unknown" for an empty URL, else the provider of the
\* first table entry one of whose patterns is found in the lower-cased URL
detect_ats_from_url(url) ==
  IF url = NoUrl THEN "unknown"
  ELSE LET url_lower == Lower(url)
           hits == { i \in 1..Len(ATS_URL_PATTERNS) :
                       \E j \in 1..Len(ATS_URL_PATTERNS[i].patterns) :
                          Search(ATS_URL_PATTERNS[i].patterns[j], url_lower) }
       IN IF hits = {} THEN "unknown" ELSE ATS_URL_PATTERNS[MinOf(hits)].provider

\* detect_ats_from_url on the apply URLs of the model, computed once
ProviderOf == [u \in KnownApplyUrls |-> detect_ats_from_url(u)]
url_provider(url) ==
  IF url \in KnownApplyUrls THEN ProviderOf[url] ELSE detect_ats_from_url(url)

\* ------------------------------------------------------- linkedin_scraper.py
\* _parse_api_job as a mutant would have it: any apply URL counts as external
parse_api_job_anyurl(raw) ==
  LET apply_url == raw.apply_url
      ats_provider == IF apply_url # NoUrl THEN url_provider(apply_url) ELSE None
      job_origin == IF apply_url # NoUrl /\ ats_provider # None /\ ats_provider # "unknown"
                    THEN "ATS" ELSE "LINKEDIN_NATIVE"
  IN [job_id |-> raw.id, company_name |-> raw.company, source |-> "linkedin",
      apply_url |-> apply_url, ats_provider |-> ats_provider,
      job_origin |-> job_origin, extraction_method |-> "api"]

\* _parse_api_job, for a raw candidate [id, company, apply_url] that has an
\* id, a title and a company name: the apply URL, the provider detected from
\* it and the origin computed from both
parse_api_job(raw) ==
  LET apply_url == raw.apply_url
      ats_provider == IF apply_url # NoUrl THEN url_provider(apply_url) ELSE None
      external_apply == apply_url # NoUrl
                        /\ ~Search(<<"linkedin", ".", "com">>, apply_url)
      job_origin == IF external_apply /\ ats_provider # None /\ ats_provider # "unknown"
                    THEN "ATS" ELSE "LINKEDIN_NATIVE"
  IN [job_id |-> raw.id, company_name |-> raw.company, source |-> "linkedin",
      apply_url |-> apply_url, ats_provider |-> ats_provider,
      job_origin |-> job_origin, extraction_method |-> "api"]

\* ------------------------------------------------------------ ats_scraper.py
\* SUPPORTED_API_PROVIDERS as a mutant would have it: with an API path for
\* iCIMS
SUPPORTED_API_PROVIDERS_icims ==
  {"greenhouse", "lever", "ashby", "smartrecruiters", "workday", "icims"}

\* ATSScraper.SUPPORTED_API_PROVIDERS
SUPPORTED_API_PROVIDERS ==
  {"greenhouse", "lever", "ashby", "smartrecruiters", "workday"}

\* the JobPosting that a provider client (API path) or the network
\* interception path builds for the company being fetched
ats_job(company_name, apply_url, provider, id, method) ==
  [job_id |-> id, company_name |-> company_name, source |-> "ats",
   apply_url |-> apply_url, ats_provider |-> provider,
   job_origin |-> "ATS", extraction_method |-> method]

\* ------------------------------------------------------------ job_pipeline.py
VARIABLES
  pc,                 \* where run() stands
  max_jobs,           \* run(max_jobs)
  max_ats_jobs_per_company,  \* run(max_ats_jobs_per_company)
  fetch_ats_jobs,     \* JobIngestionPipeline.fetch_ats_jobs
  candidates,         \* the raw candidates the discovery surface can return
  ats_ids,            \* the job ids the ATS of a company can return
  scraper_state,      \* LinkedInScraper.state
  scraper_on_block,   \* LinkedInScraper._on_block
  result_state,       \* PipelineResult.scraper_state
  errors,             \* PipelineResult.errors
  jobs,               \* PipelineResult.jobs
  ats_info,           \* PipelineResult.ats_companies
  native_companies,   \* PipelineResult.linkedin_native_companies
  seen_job_ids,       \* JobIngestionPipeline._seen_job_ids
  companies_processed, \* JobIngestionPipeline._companies_processed
  linkedin_jobs,      \* run(): linkedin_jobs
  ats_companies,      \* run(): ats_companies, in insertion order
  comp_idx,           \* run(): the position of the Phase 3 loop in ats_companies
  ats_job_count,      \* run(): ats_job_count
  observed,           \* history: the last response given to the block monitor
  first_added,        \* history: per job key, the first posting given to _add_job
  fetch_hist,         \* history: per company key, what its ATS fetch did
  blocked_at,         \* history: where the run stood when it was first blocked
  detected,           \* the last URL given to detect_ats_from_url, and what came of it
  limiter,            \* RateLimiter / _rate_limit: the clock and the limiter's fields
  run_count           \* the calls of run() made on the pipeline since start()

vars == << pc, max_jobs, max_ats_jobs_per_company, fetch_ats_jobs, candidates,
           ats_ids, scraper_state, scraper_on_block, result_state, errors, jobs,
           ats_info, native_companies, seen_job_ids, companies_processed,
           linkedin_jobs, ats_companies, comp_idx, ats_job_count, observed,
           first_added, fetch_hist, blocked_at, detected, limiter, run_count >>

\* ScraperState()
NewScraperState ==
  [is_blocked |-> FALSE, block_reason |-> None, jobs_collected |-> 0,
   requests_made |-> 0]

\* _get_job_key: f"{job.company_name.lower()}:{job.job_id}"
get_job_key(job) == Lower(job.company_name) \o <<":">> \o job.job_id

\* _add_job as a mutant would have it: a duplicate replaces the record
add_job_overwrite(st, job) ==
  IF get_job_key(job) \in st.seen
  THEN [st EXCEPT !.jobs = [i \in 1..Len(st.jobs) |->
                              IF get_job_key(st.jobs[i]) = get_job_key(job)
                              THEN job ELSE st.jobs[i]]]
  ELSE [jobs |-> Append(st.jobs, job),
        seen |-> st.seen \cup {get_job_key(job)},
        collected |-> st.collected + 1]

\* _add_job as a mutant would have it: a duplicate is counted as collected
add_job_recount(st, job) ==
  IF get_job_key(job) \in st.seen
  THEN [st EXCEPT !.collected = @ + 1]
  ELSE [jobs |-> Append(st.jobs, job),
        seen |-> st.seen \cup {get_job_key(job)},
        collected |-> st.collected + 1]

\* what _add_job returns (lines 240-246): False for a key already seen, True
\* for a new one
add_job_returns(st, job) == get_job_key(job) \notin st.seen

\* _add_job on st = [jobs, seen, collected], the three things it writes
add_job(st, job) ==
  IF get_job_key(job) \in st.seen
  THEN st
  ELSE [jobs |-> Append(st.jobs, job),
        seen |-> st.seen \cup {get_job_key(job)},
        collected |-> st.collected + 1]

\* for job in js: self._add_job(job)
RECURSIVE add_jobs(_, _)
add_jobs(st, js) ==
  IF js = <<>> THEN st ELSE add_jobs(add_job(st, Head(js)), Tail(js))

\* the three things _add_job writes, as the pipeline holds them
AddState == [jobs |-> jobs, seen |-> seen_job_ids,
             collected |-> result_state.jobs_collected]

\* the composite key of a posting: (company_name lower-cased, id)
PairKey(job) == << Lower(job.company_name), job.job_id >>

\* history of _add_job calls: the first posting given for each composite key
RECURSIVE log_adds(_, _)
log_adds(fa, js) ==
  IF js = <<>> THEN fa
  ELSE LET k == PairKey(Head(js))
       IN log_adds(IF k \in DOMAIN fa THEN fa ELSE fa @@ (k :> Head(js)), Tail(js))

\* Phase 2 as a mutant would have it: the ATS-origin jobs are given to
\* _add_job as well as grouped
RECURSIVE classify_from_addall(_, _, _)
classify_from_addall(ljobs, i, acc) ==
  IF i > Len(ljobs) THEN acc
  ELSE LET job == ljobs[i]
           company_key == Lower(job.company_name)
           at == { g \in 1..Len(acc.groups) : acc.groups[g].key = company_key }
       IN IF job.job_origin = "ATS" /\ job.apply_url # NoUrl
          THEN classify_from_addall(ljobs, i + 1,
                 [acc EXCEPT !.groups =
                    IF at = {}
                    THEN Append(acc.groups, [key |-> company_key, jobs |-> <<job>>])
                    ELSE [acc.groups EXCEPT ![MinOf(at)].jobs = Append(@, job)],
                             !.added = Append(@, job)])
          ELSE classify_from_addall(ljobs, i + 1,
                 [acc EXCEPT !.natives = @ \cup {company_key},
                             !.added = Append(@, job)])

\* run(), Phase 2 (lines 167-176) from the i-th discovered job on:
\* acc = [groups, natives, added], groups being ats_companies in insertion
\* order and added the jobs given to _add_job, in order
RECURSIVE classify_from(_, _, _)
classify_from(ljobs, i, acc) ==
  IF i > Len(ljobs) THEN acc
  ELSE LET job == ljobs[i]
           company_key == Lower(job.company_name)
           at == { g \in 1..Len(acc.groups) : acc.groups[g].key = company_key }
       IN IF job.job_origin = "ATS" /\ job.apply_url # NoUrl
          THEN classify_from(ljobs, i + 1,
                 [acc EXCEPT !.groups =
                    IF at = {}
                    THEN Append(acc.groups, [key |-> company_key, jobs |-> <<job>>])
                    ELSE [acc.groups EXCEPT ![MinOf(at)].jobs = Append(@, job)]])
          ELSE classify_from(ljobs, i + 1,
                 [acc EXCEPT !.natives = @ \cup {company_key},
                             !.added = Append(@, job)])

classify(ljobs) ==
  classify_from(ljobs, 1, [groups |-> <<>>, natives |-> {}, added |-> <<>>])

\* group_jobs as a mutant would have it: the first job of each group only
RECURSIVE group_jobs_heads(_)
group_jobs_heads(groups) ==
  IF groups = <<>> THEN <<>>
  ELSE <<Head(groups).jobs[1]>> \o group_jobs_heads(Tail(groups))

\* all the jobs of all the groups, in insertion order (lines 228-230)
RECURSIVE group_jobs(_)
group_jobs(groups) ==
  IF groups = <<>> THEN <<>> ELSE Head(groups).jobs \o group_jobs(Tail(groups))

\* ----------------------------------------------------------- the environment
\* the id of the n-th job discovery returns (search_jobs drops a job whose id
\* it has already yielded, so the ids it yields are distinct)
NthId(n) == <<ToString(n)>>
\* what the discovery surface can return in a pipeline run: a company with a
\* Greenhouse board, the same company under another spelling with a native
\* posting, and a second company with an iCIMS page (a provider without an
\* API client)
RunCandidates ==
  { [company |-> <<"ACME">>, apply_url |-> GreenhouseUrl],
    [company |-> <<"Acme">>, apply_url |-> NoUrl],
    [company |-> <<"Tiny">>, apply_url |-> IcimsUrl] }
\* the ids an ATS can return: the ids of the first two discovered jobs, which
\* are new or not according to the company that discovery returned them for
RunAtsIds == { <<"1">>, <<"2">> }

\* the responses observed during a pipeline run
RunEvents ==
  { [url |-> SearchUrl, status |-> 429],
    [url |-> AuthwallUrl, status |-> 200] }

NoEvent == [url |-> NoUrl, status |-> 0, reason |-> None]
NotBlocked == [pc |-> None, n |-> 0]
NotDetected == [url |-> NoUrl, provider |-> None, job |-> None, groups |-> <<>>,
                added |-> <<>>]
\* RateLimiter(): last_request_time = 0.0, at a time when no call was made
NewLimiter == [kind |-> None, pc |-> "idle", now |-> 0, last_request_time |-> 0,
               wake |-> 0, done |-> <<>>]

\* -------------------------------------------------------------------- Init
\* the state after JobIngestionPipeline.start()
InitPipeline ==
  /\ pc = "idle"
  /\ scraper_state = NewScraperState
  /\ scraper_on_block = None
  /\ result_state = NewScraperState
  /\ errors = <<>>
  /\ jobs = <<>>
  /\ ats_info = <<>>
  /\ native_companies = {}
  /\ seen_job_ids = {}
  /\ companies_processed = {}
  /\ linkedin_jobs = <<>>
  /\ ats_companies = <<>>
  /\ comp_idx = 0
  /\ ats_job_count = 0
  /\ observed = NoEvent
  /\ first_added = <<>>
  /\ fetch_hist = <<>>
  /\ blocked_at = NotBlocked
  /\ detected = NotDetected
  /\ limiter = NewLimiter
  /\ run_count = 0

Init ==
  /\ InitPipeline
  /\ max_jobs = MaxJobs
  /\ max_ats_jobs_per_company = MaxAtsJobs
  /\ fetch_ats_jobs \in BOOLEAN
  /\ candidates = RunCandidates
  /\ ats_ids = RunAtsIds

side_vars == << detected, limiter, run_count >>
params == << max_jobs, max_ats_jobs_per_company, fetch_ats_jobs, candidates, ats_ids >>
result_vars == << jobs, seen_job_ids, ats_info, native_companies, companies_processed >>
loop_vars == << linkedin_jobs, ats_companies, comp_idx, ats_job_count >>

\* ------------------------------------------------------------ block handling
\* JobIngestionPipeline._handle_block as a mutant would have it: the flag is
\* set and the reason is not
pipeline_handle_block_noreason(rs, reason) ==
  [rs EXCEPT !.is_blocked = TRUE]

\* JobIngestionPipeline._handle_block as a mutant would have it: the reason
\* of a result that is blocked already is kept
pipeline_handle_block_first(rs, reason) ==
  IF rs.is_blocked THEN rs
  ELSE [rs EXCEPT !.is_blocked = TRUE, !.block_reason = reason]

\* JobIngestionPipeline._handle_block (lines 100-101): its writes to
\* self._result.scraper_state
pipeline_handle_block(rs, reason) ==
  [rs EXCEPT !.is_blocked = TRUE, !.block_reason = reason]

\* LinkedInScraper._handle_block (lines 103-104): its writes to self.state
scraper_handle_block(ss, reason) ==
  [ss EXCEPT !.is_blocked = TRUE, !.block_reason = reason]

\* LinkedInScraper._handle_block(reason), with the call of self._on_block:
\* JobIngestionPipeline._handle_block once run() has registered it
HandleBlock(ss, reason) ==
  /\ scraper_state' = scraper_handle_block(ss, reason)
  /\ IF scraper_on_block = "pipeline"
     THEN /\ result_state' = pipeline_handle_block(result_state, reason)
          /\ errors' = Append(errors, <<"Blocked", reason>>)
     ELSE UNCHANGED << result_state, errors >>
  /\ blocked_at' = IF blocked_at = NotBlocked
                   THEN [pc |-> pc, n |-> Len(linkedin_jobs)]
                   ELSE blocked_at

\* setup_network_interception.handle_response (lines 108-122) for the
\* response e: the request counter, the classification, the writes to the
\* scraper's state and the on_block_detected callback
HandleResponse(e) ==
  LET counted == [scraper_state EXCEPT !.requests_made = @ + 1]
      block_reason == detect_block_from_response(e)
  IN IF block_reason # None
     THEN HandleBlock([counted EXCEPT !.is_blocked = TRUE,
                                      !.block_reason = block_reason],
                      block_reason)
     ELSE /\ scraper_state' = counted
          /\ UNCHANGED << result_state, errors, blocked_at >>

\* a response arrives while run() is suspended in discovery or in a fetch
NetworkEvent ==
  /\ pc \in {"goto", "wait", "discovering", "fetch_api", "fetch_net"}
  /\ scraper_state.requests_made < MaxEvents
  /\ \E e \in RunEvents : HandleResponse(e)
  /\ UNCHANGED << pc, params, side_vars, scraper_on_block, result_vars, loop_vars,
                  observed, first_added, fetch_hist >>

\* the block monitor is given the response e
Observe ==
  /\ pc # "idle"
  /\ observed = NoEvent
  /\ \E e \in MonitorEvents :
        /\ HandleResponse(e)
        /\ observed' = [url |-> e.url, status |-> e.status,
                        reason |-> detect_block_from_response(e)]
  /\ UNCHANGED << pc, params, side_vars, scraper_on_block, result_vars, loop_vars,
                  first_added, fetch_hist >>

\* ------------------------------------------------------------------ run()
\* run() up to the first suspension of search_jobs (job_pipeline.py lines
\* 124-149, linkedin_scraper.py lines 137-165): the block callback is
\* registered, and a scraper that is already blocked yields nothing
Run ==
  /\ pc = "idle"
  /\ run_count' = run_count + 1
  /\ scraper_on_block' = "pipeline"
  /\ pc' = IF scraper_state.is_blocked THEN "classify" ELSE "goto"
  /\ UNCHANGED << params, detected, limiter, scraper_state, result_state, errors,
                  result_vars, loop_vars, observed, first_added, fetch_hist,
                  blocked_at >>

\* search_jobs after page.goto (lines 167-170): _check_page_blocked on the
\* URL the page ended on
Goto ==
  /\ pc = "goto"
  /\ \E url \in PageUrls :
        LET block_reason == url_block_reason(url)
        IN IF block_reason # None
           THEN /\ HandleBlock(scraper_state, block_reason)
                /\ pc' = "classify"
           ELSE /\ pc' = "wait"
                /\ UNCHANGED << scraper_state, result_state, errors, blocked_at >>
  /\ UNCHANGED << params, side_vars, scraper_on_block, result_vars, loop_vars, observed,
                  first_added, fetch_hist >>

\* WaitDone as a mutant would have it: _wait_for_api_responses without its
\* timeout returns only once the scraper is blocked
WaitDone_untimed ==
  /\ pc = "wait"
  /\ scraper_state.is_blocked
  /\ pc' = "classify"
  /\ UNCHANGED << params, side_vars, scraper_state, scraper_on_block, result_state, errors,
                  result_vars, loop_vars, observed, first_added, fetch_hist,
                  blocked_at >>

\* search_jobs after _wait_for_api_responses (lines 170-176)
WaitDone ==
  /\ pc = "wait"
  /\ pc' = IF scraper_state.is_blocked THEN "classify" ELSE "discovering"
  /\ UNCHANGED << params, side_vars, scraper_state, scraper_on_block, result_state, errors,
                  result_vars, loop_vars, observed, first_added, fetch_hist,
                  blocked_at >>

\* the ids search_jobs has yielded (its seen_job_ids)
YieldedIds == { linkedin_jobs[i].job_id : i \in 1..Len(linkedin_jobs) }

\* may_yield as a mutant would have it: the blocked flag is not looked at
may_yield_unchecked(ss, jobs_yielded, cap) == jobs_yielded < cap

\* may_yield as a mutant would have it: the cap is tested after the yield
may_yield_late(ss, jobs_yielded, cap) == jobs_yielded <= cap /\ ~ss.is_blocked

\* search_jobs may yield another job (lines 179-193, 232-258)
may_yield(ss, jobs_yielded, cap) == jobs_yielded < cap /\ ~ss.is_blocked

\* search_jobs yields the next job and run() consumes it (linkedin_scraper.py
\* lines 178-193 and 243-258, job_pipeline.py lines 145-154)
DiscoverYield ==
  /\ pc = "discovering"
  /\ may_yield(scraper_state, Len(linkedin_jobs), max_jobs)
  /\ \E c \in candidates :
        LET raw == [id |-> NthId(Len(linkedin_jobs) + 1), company |-> c.company,
                    apply_url |-> c.apply_url]
        IN /\ raw.id \notin YieldedIds
           /\ linkedin_jobs' = Append(linkedin_jobs, parse_api_job(raw))
  /\ scraper_state' = [scraper_state EXCEPT !.jobs_collected = @ + 1]
  /\ pc' = IF result_state.is_blocked THEN "classify" ELSE "discovering"
  /\ UNCHANGED << params, side_vars, scraper_on_block, result_state, errors, result_vars,
                  ats_companies, comp_idx, ats_job_count, observed, first_added,
                  fetch_hist, blocked_at >>

\* search_jobs ends: nothing more to yield, the cap is reached or the
\* scraper is blocked (lines 195-202)
DiscoverEnd ==
  /\ pc = "discovering"
  /\ pc' = "classify"
  /\ UNCHANGED << params, side_vars, scraper_state, scraper_on_block, result_state, errors,
                  result_vars, loop_vars, observed, first_added, fetch_hist,
                  blocked_at >>

\* _finalize_result (lines 254-257): the result takes the scraper's state
Finalize(rs) == scraper_state

\* run() between discovery and the Phase 3 loop (lines 158-181), and to the
\* return when there is no Phase 3 (lines 227-234)
Classify ==
  /\ pc = "classify"
  /\ IF linkedin_jobs = <<>>
     THEN /\ result_state' = Finalize(result_state)
          /\ pc' = "done"
          /\ UNCHANGED << result_vars, ats_companies, comp_idx, first_added >>
     ELSE \E c \in {classify(linkedin_jobs)} :
          \E st \in {add_jobs(AddState, c.added)} :
             IF fetch_ats_jobs /\ c.groups # <<>> /\ ~result_state.is_blocked
             THEN /\ jobs' = st.jobs
                  /\ seen_job_ids' = st.seen
                  /\ result_state' = [result_state EXCEPT !.jobs_collected = st.collected]
                  /\ native_companies' = c.natives
                  /\ ats_companies' = c.groups
                  /\ comp_idx' = 1
                  /\ first_added' = log_adds(first_added, c.added)
                  /\ pc' = "loop"
                  /\ UNCHANGED << ats_info, companies_processed >>
             ELSE \E all \in {add_jobs(st, group_jobs(c.groups))} :
                     /\ jobs' = all.jobs
                     /\ seen_job_ids' = all.seen
                     /\ result_state' = Finalize([result_state EXCEPT
                                                   !.jobs_collected = all.collected])
                     /\ native_companies' = c.natives
                     /\ ats_companies' = c.groups
                     /\ first_added' = log_adds(first_added,
                                                c.added \o group_jobs(c.groups))
                     /\ pc' = "done"
                     /\ UNCHANGED << ats_info, companies_processed, comp_idx >>
  /\ UNCHANGED << params, side_vars, scraper_state, scraper_on_block, errors, linkedin_jobs,
                  ats_job_count, observed, fetch_hist, blocked_at >>

\* run(), Phase 3: the company group the loop stands at
\* the group the loop stands at as a mutant would have it: the groups are
\* taken from the last one to the first
Group_reverse == ats_companies[Len(ats_companies) + 1 - comp_idx]

Group == ats_companies[comp_idx]
\* the representative as a mutant would have it: the last candidate of the
\* group
Representative_last == Group.jobs[Len(Group.jobs)]

Representative == Group.jobs[1]

\* self._result.ats_companies[company_key] = ATSCompanyInfo(...) (lines 217-222)
put_info(info, company_key, rep, count) ==
  [k \in DOMAIN info \cup {company_key} |->
     IF k = company_key
     THEN [company_name |-> rep.company_name, ats_provider |-> rep.ats_provider,
           job_count |-> count]
     ELSE info[k]]

\* fetch_succeeded as a mutant would have it: no fetch counts as a success
fetch_succeeded_never(count, raised) == FALSE

\* fetch_succeeded as a mutant would have it: a fetch that did not raise counts
\* as a success
fetch_succeeded_unraised(count, raised) == ~raised

\* the fetch counts as a success (line 216)
fetch_succeeded(count, raised) == count > 0

\* run() after the fetch of the company ended, by exhaustion or by an
\* exception (lines 212-226), up to the head of the loop
FinishCompany(raised) ==
  /\ errors' = IF raised
               THEN Append(errors, <<"ATS error", Representative.company_name>>)
               ELSE errors
  /\ IF fetch_succeeded(ats_job_count, raised)
     THEN /\ ats_info' = put_info(ats_info, Group.key, Representative, ats_job_count)
          /\ companies_processed' = companies_processed \cup {Group.key}
          /\ UNCHANGED << jobs, seen_job_ids, result_state, first_added >>
     ELSE LET st == add_jobs(AddState, Group.jobs)
          IN /\ jobs' = st.jobs
             /\ seen_job_ids' = st.seen
             /\ result_state' = [result_state EXCEPT !.jobs_collected = st.collected]
             /\ first_added' = log_adds(first_added, Group.jobs)
             /\ UNCHANGED << ats_info, companies_processed >>
  /\ fetch_hist' = [fetch_hist EXCEPT ![Group.key].outcome =
                      IF raised THEN "raised" ELSE "ok"]
  /\ comp_idx' = comp_idx + 1
  /\ pc' = "loop"
  /\ UNCHANGED << params, side_vars, scraper_state, scraper_on_block, native_companies,
                  linkedin_jobs, ats_companies, ats_job_count, observed,
                  blocked_at >>

\* loop_stops as a mutant would have it: an error of an earlier fetch stops
\* the loop as a block does
loop_stops_on_error(rs) == rs.is_blocked \/ errors # <<>>

\* the Phase 3 loop stops before the company at its head (lines 184-186)
loop_stops(rs) == rs.is_blocked

\* the company is skipped (lines 188-189)
already_processed(company_key, processed) == company_key \in processed

\* the head of the Phase 3 loop (lines 184-205), up to the first suspension
\* of scrape_company (ats_scraper.py lines 74-84, 97-99), which returns at
\* once when the provider of the URL is unknown (lines 76-78), or the return
\* of run() when the loop is left (lines 232-234)
LoopHead ==
  /\ pc = "loop"
  /\ IF comp_idx > Len(ats_companies) \/ loop_stops(result_state)
     THEN /\ result_state' = Finalize(result_state)
          /\ pc' = "done"
          /\ UNCHANGED << jobs, seen_job_ids, comp_idx, ats_job_count,
                          first_added, fetch_hist >>
     ELSE IF already_processed(Group.key, companies_processed)
     THEN /\ comp_idx' = comp_idx + 1
          /\ UNCHANGED << pc, jobs, seen_job_ids, result_state, ats_job_count,
                          first_added, fetch_hist >>
     ELSE IF Representative.apply_url = NoUrl \/ Representative.ats_provider = None
     THEN LET st == add_jobs(AddState, Group.jobs)
          IN /\ jobs' = st.jobs
             /\ seen_job_ids' = st.seen
             /\ result_state' = [result_state EXCEPT !.jobs_collected = st.collected]
             /\ first_added' = log_adds(first_added, Group.jobs)
             /\ comp_idx' = comp_idx + 1
             /\ UNCHANGED << pc, ats_job_count, fetch_hist >>
     ELSE LET provider == url_provider(Representative.apply_url)
              started == [k \in DOMAIN fetch_hist \cup {Group.key} |->
                            IF k = Group.key
                            THEN [ids |-> <<>>, paths |-> 0, provider |-> provider,
                                  outcome |-> IF provider = "unknown"
                                              THEN "ok" ELSE "running"]
                            ELSE fetch_hist[k]]
          IN IF provider = "unknown"
             THEN LET st == add_jobs(AddState, Group.jobs)
                  IN /\ jobs' = st.jobs
                     /\ seen_job_ids' = st.seen
                     /\ result_state' = [result_state EXCEPT
                                           !.jobs_collected = st.collected]
                     /\ first_added' = log_adds(first_added, Group.jobs)
                     /\ comp_idx' = comp_idx + 1
                     /\ ats_job_count' = 0
                     /\ fetch_hist' = started
                     /\ UNCHANGED pc
             ELSE /\ ats_job_count' = 0
                  /\ fetch_hist' = started
                  /\ pc' = IF provider \in SUPPORTED_API_PROVIDERS
                           THEN "fetch_api" ELSE "fetch_net"
                  /\ UNCHANGED << jobs, seen_job_ids, result_state, comp_idx,
                                  first_added >>
  /\ UNCHANGED << params, side_vars, scraper_state, scraper_on_block, errors, ats_info,
                  native_companies, companies_processed, linkedin_jobs,
                  ats_companies, observed, blocked_at >>

\* scrape_company yields a job and run() adds it (ats_scraper.py lines 84-88
\* and 99-101, job_pipeline.py lines 205-211)
FetchYieldOf(method, id) ==
  LET job == ats_job(Representative.company_name, Representative.apply_url,
                     url_provider(Representative.apply_url), id, method)
      st == add_job(AddState, job)
  IN /\ jobs' = st.jobs
     /\ seen_job_ids' = st.seen
     /\ result_state' = [result_state EXCEPT !.jobs_collected = st.collected]
     /\ first_added' = log_adds(first_added, <<job>>)

FetchYield(method) ==
  /\ ats_job_count < max_ats_jobs_per_company
  /\ ats_job_count' = ats_job_count + 1
  /\ \E id \in ats_ids :
        /\ FetchYieldOf(method, id)
        /\ fetch_hist' = [fetch_hist EXCEPT ![Group.key].ids = Append(@, id)]
  /\ UNCHANGED << pc, params, side_vars, scraper_state, scraper_on_block, errors, ats_info,
                  native_companies, companies_processed, linkedin_jobs,
                  ats_companies, comp_idx, observed, blocked_at >>

\* the API path yields (ats_scraper.py lines 84-88)
ApiYield == pc = "fetch_api" /\ FetchYield("ats_api")

\* the API path ends, its own exceptions swallowed (lines 90-99, 125-130):
\* scrape_company returns when it yielded, and goes on to network
\* interception when it did not
ApiEnd ==
  /\ pc = "fetch_api"
  /\ IF ats_job_count > 0
     THEN FinishCompany(FALSE)
     ELSE /\ pc' = "fetch_net"
          /\ fetch_hist' = [fetch_hist EXCEPT ![Group.key].paths = 1]
          /\ UNCHANGED << params, side_vars, scraper_state, scraper_on_block, result_state,
                          errors, result_vars, loop_vars, observed, first_added,
                          blocked_at >>

\* the network interception path yields (lines 99-101, 168-182)
NetYield == pc = "fetch_net" /\ FetchYield("network_interception")

\* the network interception path ends (lines 103-107)
NetEnd == pc = "fetch_net" /\ FinishCompany(FALSE)

\* the network interception path raises: page.goto fails before any job, or
\* a malformed response or page.close fails after some (lines 161-185)
NetRaise == pc = "fetch_net" /\ FinishCompany(TRUE)

Next ==
  \/ Run \/ Goto \/ WaitDone \/ DiscoverYield \/ DiscoverEnd \/ Classify
  \/ LoopHead \/ ApiYield \/ ApiEnd \/ NetYield \/ NetEnd \/ NetRaise
  \/ NetworkEvent

Spec == Init /\ [][Next]_vars

NextMonitor == Run \/ Goto \/ Observe

SpecMonitor == Init /\ [][NextMonitor]_vars

\* detect_ats_from_url is called with a URL, or with no URL, and a candidate
\* with this apply URL is parsed (_parse_api_job) and classified (Phase 2)
Detect ==
  /\ detected = NotDetected
  /\ \E url \in DetectUrls \cup {NoUrl} :
        LET job == parse_api_job([id |-> NthId(1), company |-> <<"Acme">>,
                                  apply_url |-> url])
            c == classify(<<job>>)
        IN detected' = [url |-> url, provider |-> detect_ats_from_url(url),
                        job |-> job, groups |-> c.groups, added |-> c.added]
  /\ UNCHANGED << pc, params, limiter, run_count, scraper_state, scraper_on_block,
                  result_state, errors, result_vars, loop_vars, observed,
                  first_added, fetch_hist, blocked_at >>

NextDetect == Detect

\* -------------------------------------------------------- the rate limiters
\* the two values of limiter.kind: RateLimiter of Comeet/comeet_scraper.py,
\* and LinkedInScraper._rate_limit
LimiterKinds == {"RateLimiter", "_rate_limit"}

\* the time a call sleeps as a mutant would have it: none
sleep_time_none(kind, current_time, last_request_time) == 0

\* the time a call sleeps: RateLimiter.wait sleeps what is left of
\* min_interval since last_request_time (lines 43-49), _rate_limit sleeps
\* rate_limit_ms whenever it is positive (lines 111-112)
sleep_time(kind, current_time, last_request_time) ==
  IF kind = "RateLimiter"
  THEN LET time_since_last == current_time - last_request_time
       IN IF time_since_last < MinInterval
          THEN MinInterval - time_since_last ELSE 0
  ELSE IF MinInterval > 0 THEN MinInterval ELSE 0

\* the last two completion times, t being the newest
completed(done, t) == IF done = <<>> THEN <<t>> ELSE <<done[Len(done)], t>>

limiter_frame ==
  UNCHANGED << pc, params, detected, run_count, scraper_state, scraper_on_block,
               result_state, errors, result_vars, loop_vars, observed,
               first_added, fetch_hist, blocked_at >>

\* RateLimiter(), or a scraper with its rate_limit_ms, is created
LimiterNew ==
  /\ limiter.kind = None
  /\ \E kind \in LimiterKinds : limiter' = [limiter EXCEPT !.kind = kind]
  /\ limiter_frame

\* time passes between two calls, or while a call sleeps (a sleep may last
\* longer than asked)
Tick ==
  /\ limiter.kind # None
  /\ limiter.now < MaxTime
  /\ limiter' = [limiter EXCEPT !.now = @ + 1]
  /\ limiter_frame

\* wait() / _rate_limit() is called: the clock is read and the call sleeps
WaitCall ==
  /\ limiter.kind # None
  /\ limiter.pc = "idle"
  /\ LET current_time == limiter.now
         wake == current_time + sleep_time(limiter.kind, current_time,
                                           limiter.last_request_time)
     IN /\ wake <= MaxTime
        /\ limiter' = [limiter EXCEPT !.pc = "sleeping", !.wake = wake]
  /\ limiter_frame

\* the sleep is over and the call completes; RateLimiter.wait writes
\* last_request_time = time.time() (line 51)
WaitReturn ==
  /\ limiter.pc = "sleeping"
  /\ limiter.now >= limiter.wake
  /\ limiter' = [limiter EXCEPT
                   !.pc = "idle",
                   !.last_request_time = IF limiter.kind = "RateLimiter"
                                         THEN limiter.now ELSE @,
                   !.done = completed(@, limiter.now)]
  /\ limiter_frame

NextRate == LimiterNew \/ Tick \/ WaitCall \/ WaitReturn
SpecRate == Init /\ [][NextRate]_vars
SpecDetect == Init /\ [][NextDetect]_vars

\* the end-to-end run: a company with a Greenhouse board and a native
\* company, and an ATS that returns ids that discovery returned and ids
\* that it did not
E2ECandidates ==
  { [company |-> <<"Acme">>, apply_url |-> GreenhouseUrl],
    [company |-> <<"Tiny">>, apply_url |-> NoUrl] }
E2EAtsIds == { <<"1">>, <<"3">>, <<"4">>, <<"5">>, <<"6">> }
InitE2E ==
  /\ InitPipeline
  /\ max_jobs = E2EMaxJobs
  /\ max_ats_jobs_per_company = E2EMaxAtsJobs
  /\ fetch_ats_jobs = TRUE
  /\ candidates = E2ECandidates
  /\ ats_ids = E2EAtsIds
\* no response other than those of the search is observed in this run
NextE2E ==
  \/ Run \/ Goto \/ WaitDone \/ DiscoverYield \/ DiscoverEnd \/ Classify
  \/ LoopHead \/ ApiYield \/ ApiEnd \/ NetYield \/ NetEnd \/ NetRaise
SpecE2E == InitE2E /\ [][NextE2E]_vars

\* ------------------------------------------------------------------ claims
Range(f) == { f[i] : i \in DOMAIN f }
Postings == Range(jobs)
\* a posting with the composite key of p was passed to _add_job by a fetch
FetchedKey(p) ==
  /\ Lower(p.company_name) \in DOMAIN fetch_hist
  /\ p.job_id \in Range(fetch_hist[Lower(p.company_name)].ids)

\* C1: in every state of a run, and so in the returned result, no two
\* postings of the result have the same composite key (company_name
\* lower-cased, id), and the posting the result holds for a key is the one
\* that was passed to _add_job first, whatever its source
C1_DedupFirstSeen ==
  /\ \A i, j \in 1..Len(jobs) : PairKey(jobs[i]) = PairKey(jobs[j]) => i = j
  /\ \A i \in 1..Len(jobs) :
        /\ PairKey(jobs[i]) \in DOMAIN first_added
        /\ first_added[PairKey(jobs[i])] = jobs[i]
  /\ \A k \in DOMAIN first_added : first_added[k] \in Postings

\* C1 witness: the run is over, and a fetch yielded a posting with the key of
\* a discovery posting that the result holds
C1_Witness ==
  /\ pc = "done"
  /\ \E p \in Postings : p.source = "linkedin" /\ FetchedKey(p)

\* C2: when the block is detected right after the k-th candidate was
\* produced, 1 <= k, the run consumes no further candidate, the returned
\* postings are exactly the first k candidates, native-origin and ATS-origin
\* alike, and the returned run state is blocked
C2_PartialResultsOnBlock ==
  (pc = "done" /\ blocked_at.pc = "discovering" /\ blocked_at.n >= 1) =>
     /\ Len(linkedin_jobs) = blocked_at.n
     /\ Len(jobs) = blocked_at.n
     /\ Postings = Range(linkedin_jobs)
     /\ result_state.is_blocked

\* C2 witness: a run blocked after its second candidate has returned, the
\* two candidates being one of ATS origin and one native
C2_Witness ==
  /\ pc = "done"
  /\ blocked_at.pc = "discovering"
  /\ blocked_at.n = 2
  /\ Len(jobs) = 2
  /\ \E p, q \in Postings : p.job_origin = "ATS" /\ q.job_origin = "LINKEDIN_NATIVE"

\* the discovery-time candidates of the company with key k
CandidatesOf(k) ==
  { linkedin_jobs[i] : i \in { j \in 1..Len(linkedin_jobs) :
                                 Lower(linkedin_jobs[j].company_name) = k } }
\* the number of entries of errors that are ATS errors of the company k
AtsErrorsOf(k) ==
  Cardinality({ i \in 1..Len(errors) :
                  errors[i][1] = "ATS error" /\ Lower(errors[i][2]) = k })

CandidateIdsOf(k) == { p.job_id : p \in CandidatesOf(k) }
\* the run discovered 2 ATS-origin Acme candidates and 1 native Tiny
\* candidate, and the Acme fetch yielded 5 postings with 5 ids, one of them
\* the id of a discovery-time Acme candidate
E2EScenario ==
  /\ Len(linkedin_jobs) = 3
  /\ Cardinality(CandidatesOf(<<"acme">>)) = 2
  /\ \A p \in CandidatesOf(<<"acme">>) : p.job_origin = "ATS"
  /\ Cardinality(CandidatesOf(<<"tiny">>)) = 1
  /\ \A p \in CandidatesOf(<<"tiny">>) : p.job_origin = "LINKEDIN_NATIVE"
  /\ <<"acme">> \in DOMAIN fetch_hist
  /\ LET ids == fetch_hist[<<"acme">>].ids
     IN /\ Len(ids) = 5
        /\ Cardinality(Range(ids)) = 5
        /\ Cardinality(Range(ids) \cap CandidateIdsOf(<<"acme">>)) = 1

\* C4: in the end-to-end scenario (2 ATS-origin Acme candidates, 1 native
\* Tiny candidate, an Acme fetch of 5 postings one of which has the id of a
\* discovery-time Acme candidate) the returned result has exactly 6 postings,
\* 1 of Tiny and 5 of Acme, and the info of "acme" has job_count 5
C4_EndToEnd ==
  (pc = "done" /\ E2EScenario /\ fetch_hist[<<"acme">>].outcome = "ok") =>
     /\ Len(jobs) = 6
     /\ Cardinality({ p \in Postings : Lower(p.company_name) = <<"tiny">> }) = 1
     /\ Cardinality({ p \in Postings : Lower(p.company_name) = <<"acme">> }) = 5
     /\ <<"acme">> \in DOMAIN ats_info
     /\ ats_info[<<"acme">>].job_count = 5
C4_Witness ==
  /\ pc = "done" /\ E2EScenario
  /\ fetch_hist[<<"acme">>].outcome = "ok"
  /\ Len(jobs) = 6
  /\ \E i \in 1..3 : /\ Lower(linkedin_jobs[i].company_name) = <<"tiny">>
                     /\ linkedin_jobs[i].job_id \in Range(fetch_hist[<<"acme">>].ids)

\* the pairs (company key, candidate) such that the fetch of the company
\* yielded a posting with the composite key of the candidate
FetchedAgain ==
  { kc \in { <<k, c>> : k \in DOMAIN fetch_hist, c \in Range(linkedin_jobs) } :
      /\ Lower(kc[2].company_name) = kc[1]
      /\ kc[2].job_id \in Range(fetch_hist[kc[1]].ids) }
\* the postings of the result with the composite key of the posting c
Survivors(c) == { p \in Postings : PairKey(p) = PairKey(c) }

\* C5 as stated: when a company's fetch yields a posting with the composite
\* key of one of its discovery-time candidates, the record of that key in the
\* returned result is the discovery-time instance
C5_DiscoveryInstanceSurvives ==
  pc = "done" =>
     \A kc \in FetchedAgain :
        /\ Survivors(kc[2]) # {}
        /\ \A p \in Survivors(kc[2]) : p.source = "linkedin"

\* C5 amended: when a company's fetch yields a posting with the composite key
\* of one of its discovery-time candidates, the record of that key in the
\* returned result is the one given to _add_job first: the ATS-sourced
\* instance when the candidate is ATS-origin (it was grouped, not added,
\* before the fetch), the discovery-time instance when it is native-origin
C5_FirstAddedSurvives ==
  pc = "done" =>
     \A kc \in FetchedAgain :
        /\ Survivors(kc[2]) # {}
        /\ \A p \in Survivors(kc[2]) :
              /\ p = first_added[PairKey(kc[2])]
              /\ p.source = IF kc[2].job_origin = "ATS" THEN "ats" ELSE "linkedin"
C5_Witness ==
  /\ pc = "done"
  /\ \E kc \in FetchedAgain :
        /\ kc[2].job_origin = "ATS"
        /\ \E p \in Survivors(kc[2]) : p.source = "ats"
  /\ \E kc \in FetchedAgain :
        /\ kc[2].job_origin = "LINKEDIN_NATIVE"
        /\ \E p \in Survivors(kc[2]) : p.source = "linkedin"

\* the ATS fetch of the company with key k completed successfully with at
\* least one posting
FetchCompleted(k) ==
  /\ k \in DOMAIN fetch_hist
  /\ fetch_hist[k].outcome = "ok"
  /\ Len(fetch_hist[k].ids) >= 1

BlockedEntries ==
  Cardinality({ i \in 1..Len(errors) : errors[i][1] = "Blocked" })

\* C7: however many classified events are observed, the on-block callback
\* is invoked exactly once in a run that is blocked, and so errors never has
\* more than one 'Blocked' entry
C7_CallbackOnce ==
  /\ BlockedEntries <= 1
  /\ result_state.is_blocked => BlockedEntries = 1

\* is_blocked is true exactly when block_reason is set
Consistent(st) == st.is_blocked <=> st.block_reason # None
\* is_blocked is not set back in a step
StaysBlocked ==
  /\ scraper_state.is_blocked => scraper_state'.is_blocked
  /\ result_state.is_blocked => result_state'.is_blocked

\* C8: within a run is_blocked is never set back to false, and in every
\* state is_blocked is true if and only if block_reason is not None, in the
\* scraper's state and in the result's
C8_BlockedForward ==
  /\ [](Consistent(scraper_state) /\ Consistent(result_state))
  /\ [][StaysBlocked]_vars
C8_Witness ==
  /\ pc = "done"
  /\ result_state.is_blocked /\ result_state.block_reason # None
  /\ blocked_at.pc = "discovering"
  /\ BlockedEntries = 2

\* the reason the priority order gives the response e: the status first,
\* the URL after it
ByPriority(e) ==
  CASE e.status = 429 -> "rate_limited"
    [] e.status \in {401, 403} -> "login_required"
    [] OTHER -> url_block_reason(e.url)
\* the monitor was given a response, and classified it as the order says;
\* a classified response has blocked the scraper with its reason
ClassifiedByPriority ==
  observed # NoEvent =>
     /\ observed.reason = ByPriority(observed)
     /\ observed.reason # None =>
           /\ scraper_state.is_blocked
           /\ scraper_state.block_reason \in
                 {observed.reason} \cup { url_block_reason(u) : u \in PageUrls }
\* the step in which the monitor is given a response that it does not
\* classify changes neither blocked flag nor reason, and calls no callback
UnclassifiedIgnored ==
  (observed = NoEvent /\ observed' # NoEvent /\ observed'.reason = None) =>
     /\ scraper_state'.is_blocked = scraper_state.is_blocked
     /\ scraper_state'.block_reason = scraper_state.block_reason
     /\ result_state' = result_state
     /\ errors' = errors

\* C9: the block monitor classifies a response in priority order: status
\* 429 is rate_limited, else status 401 or 403 is login_required, else the
\* reason of the URL pattern, else nothing, and then is_blocked and
\* block_reason are left as they were; the status wins over the URL
C9_ClassificationPriority ==
  /\ []ClassifiedByPriority
  /\ [][UnclassifiedIgnored]_vars
C9_Witness ==
  /\ observed.status = 429
  /\ Search(<<"/", "authwall">>, observed.url)
  /\ observed.reason = "rate_limited"
  /\ scraper_state.block_reason = "rate_limited"
  /\ result_state.block_reason = "rate_limited"

\* the lower-cased URL of the observed response contains "/" and the word w
Has(w) == Search(<<"/", w>>, Lower(observed.url))
\* the host of the observed response is the challenge host
OnChallengeHost ==
  Search(<<"challenge", ".", "linkedin", ".", "com">>, Lower(observed.url))
\* the reason the taxonomy table gives the observed URL, /authwall being
\* the only AUTHWALL pattern
TableReason ==
  IF Has("login") \/ Has("signin") \/ Has("sign-in") THEN "login_required"
  ELSE IF Has("authwall") THEN "authwall"
  ELSE IF Has("checkpoint") \/ Has("security-check") THEN "checkpoint"
  ELSE IF Has("captcha") \/ Has("challenge") \/ Has("security-verification")
          \/ OnChallengeHost THEN "captcha_detected"
  ELSE None
\* the same with /auth-wall as a second AUTHWALL pattern
TableReasonAuthWall ==
  IF Has("login") \/ Has("signin") \/ Has("sign-in") THEN "login_required"
  ELSE IF Has("authwall") \/ Has("auth-wall") THEN "authwall"
  ELSE IF Has("checkpoint") \/ Has("security-check") THEN "checkpoint"
  ELSE IF Has("captcha") \/ Has("challenge") \/ Has("security-verification")
          \/ OnChallengeHost THEN "captcha_detected"
  ELSE None

\* C10 as stated: the reason of a URL (of a response with status 200) is
\* the one of the table /login, /signin, /sign-in; /authwall; /checkpoint,
\* /security-check; /captcha, /challenge, /security-verification, challenge
\* host, the first in this order when several match, and None when the URL
\* contains none of them
C10_TaxonomyTable ==
  (observed # NoEvent /\ observed.status = 200) => observed.reason = TableReason

\* C10 amended: the same, with /auth-wall giving AUTHWALL as /authwall does,
\* the URL being compared in lower case
C10_TaxonomyTableAuthWall ==
  (observed # NoEvent /\ observed.status = 200) =>
     observed.reason = TableReasonAuthWall
C10_Witness ==
  /\ observed.status = 200
  /\ Has("checkpoint") /\ Has("challenge")
  /\ observed.reason = "checkpoint"
  /\ scraper_state.block_reason = "checkpoint"

\* the table entries one of whose patterns is found in the lower-cased URL
\* that was given to detect_ats_from_url
MatchingEntries ==
  { i \in 1..Len(ATS_URL_PATTERNS) :
      \E j \in 1..Len(ATS_URL_PATTERNS[i].patterns) :
         Search(ATS_URL_PATTERNS[i].patterns[j], Lower(detected.url)) }
\* the providers in the registry's order
RegistryOrder ==
  << "workday", "greenhouse", "lever", "icims", "taleo", "bamboohr", "jobvite",
     "smartrecruiters", "ashby" >>
\* the URL that was given to detect_ats_from_url has the host h and the path p
DetectedIs(h, p) == detected.url = <<"https", ":", "/", "/">> \o h \o p

\* C11: detect_ats_from_url gives unknown for an empty URL and for a URL that
\* matches no pattern, and else the first provider, in the order workday,
\* greenhouse, lever, icims, taleo, bamboohr, jobvite, smartrecruiters, ashby,
\* one of whose patterns matches the lower-cased URL; the four table cases
\* give greenhouse, lever, workday and unknown
C11_DetectFirstInOrder ==
  /\ [i \in 1..Len(ATS_URL_PATTERNS) |-> ATS_URL_PATTERNS[i].provider] = RegistryOrder
  /\ detected # NotDetected =>
        /\ detected.provider \in Range(RegistryOrder) \cup {"unknown"}
        /\ (detected.url = NoUrl \/ MatchingEntries = {}) <=>
              detected.provider = "unknown"
        /\ \A i \in MatchingEntries :
              (\A j \in MatchingEntries : i <= j) =>
                 detected.provider = RegistryOrder[i]
        /\ DetectedIs(<<"boards", ".", "greenhouse", ".", "io">>,
                      <<"/", "acme", "/", "jobs", "/", "123">>)
              => detected.provider = "greenhouse"
        /\ DetectedIs(<<"jobs", ".", "lever", ".", "co">>, <<"/", "acme">>)
              => detected.provider = "lever"
        /\ DetectedIs(<<"acme", ".", "wd", "5", ".", "myworkdayjobs", ".", "com">>,
                      <<"/", "en-US", "/", "x">>)
              => detected.provider = "workday"
        /\ DetectedIs(<<"linkedin", ".", "com">>,
                      <<"/", "jobs", "/", "view", "/", "1">>)
              => detected.provider = "unknown"
\* C11 witness: a URL that matches the patterns of two providers was given
\* and the provider is the earlier one
C11_Witness ==
  /\ Cardinality(MatchingEntries) >= 2
  /\ DetectedIs(<<"jobs", ".", "smartrecruiters", ".", "com">>,
                <<"/", "x", "/", "icims">>)
  /\ detected.provider = "icims"

\* the candidate that was parsed has an external apply URL: an apply URL
\* that does not contain linkedin.com
HasExternalApplyUrl ==
  /\ detected.url # NoUrl
  /\ \A i \in 1..Len(detected.url) :
        ~(i + 2 <= Len(detected.url) /\ detected.url[i] = "linkedin"
          /\ detected.url[i + 1] = "." /\ detected.url[i + 2] = "com")

\* C12: the origin of a candidate is ATS if and only if it has an external
\* apply URL and the provider detected from it is not unknown, and is native
\* otherwise; Phase 2 puts the candidate in the group of its company exactly
\* when its origin is ATS, and gives it to _add_job otherwise
C12_OriginClassification ==
  detected # NotDetected =>
     /\ detected.job.job_origin \in {"ATS", "LINKEDIN_NATIVE"}
     /\ detected.job.job_origin = "ATS" <=>
           (HasExternalApplyUrl /\ detected.provider # "unknown")
     /\ detected.job.job_origin = "ATS" <=>
           detected.groups = << [key |-> <<"acme">>, jobs |-> <<detected.job>>] >>
     /\ detected.job.job_origin = "ATS" <=> detected.added = <<>>
     /\ detected.job.job_origin = "LINKEDIN_NATIVE" <=>
           (detected.added = <<detected.job>> /\ detected.groups = <<>>)
\* C12 witness: a candidate whose apply URL is on linkedin.com and matches a
\* provider's pattern was parsed, and is native
C12_Witness ==
  /\ DetectedIs(<<"www", ".", "linkedin", ".", "com">>,
                <<"/", "r", "/", "boards", ".", "greenhouse", ".", "io">>)
  /\ detected.provider = "greenhouse"
  /\ detected.job.job_origin = "LINKEDIN_NATIVE"
  /\ detected.added = <<detected.job>>

\* C13: for any sequence of calls of wait() by one actor, whatever time
\* passes between the calls, the completions of two consecutive calls are at
\* least min_interval apart
C13_RateGovernor ==
  Len(limiter.done) = 2 => limiter.done[2] - limiter.done[1] >= MinInterval
\* C13 witness: a call of RateLimiter.wait made less than min_interval after
\* the last one has slept and completed exactly min_interval after it
C13_Witness ==
  /\ limiter.kind = "RateLimiter"
  /\ limiter.pc = "idle"
  /\ Len(limiter.done) = 2
  /\ limiter.done[2] - limiter.done[1] = MinInterval
  /\ limiter.wake = limiter.done[2]
  /\ limiter.done[1] > 0

\* the posting given to _add_job in the step in which the fetch that is
\* running yields: the id is the one the step appends to the fetch's ids
YieldedJob ==
  LET ids == fetch_hist'[Group.key].ids
  IN ats_job(Representative.company_name, Representative.apply_url,
             url_provider(Representative.apply_url), ids[Len(ids)],
             IF pc = "fetch_api" THEN "ats_api" ELSE "network_interception")
\* the step is a call of _add_job, and it does what the contract says
AddFrame ==
  (pc \in {"fetch_api", "fetch_net"} /\ ats_job_count' = ats_job_count + 1) =>
     IF add_job_returns(AddState, YieldedJob)
     THEN /\ get_job_key(YieldedJob) \notin seen_job_ids
          /\ jobs' = Append(jobs, YieldedJob)
          /\ seen_job_ids' = seen_job_ids \cup {get_job_key(YieldedJob)}
          /\ result_state'.jobs_collected = result_state.jobs_collected + 1
     ELSE /\ get_job_key(YieldedJob) \in seen_job_ids
          /\ jobs' = jobs
          /\ seen_job_ids' = seen_job_ids
          /\ result_state'.jobs_collected = result_state.jobs_collected

\* C14: _add_job returns true and appends the given posting at the end of
\* jobs when its key is new; it returns false when the key was seen, and
\* then jobs, the set of seen keys and the collected counter are unchanged
C14_AddFrame == [][AddFrame]_vars
\* C14 witness: the fetch that is running has yielded the same id twice, and
\* the second posting was not added
C14_Witness ==
  /\ pc \in {"fetch_api", "fetch_net"}
  /\ ats_job_count = 2
  /\ Len(fetch_hist[Group.key].ids) = 2
  /\ fetch_hist[Group.key].ids[1] = fetch_hist[Group.key].ids[2]
  /\ Len(jobs) = 1
  /\ result_state.jobs_collected = 1

\* every entry of ats_companies in the result has a count of at least 1 and
\* is of a company whose fetch ended without an exception
InfoOnlyOnSuccess ==
  pc = "done" =>
     \A k \in DOMAIN ats_info :
        /\ ats_info[k].job_count >= 1
        /\ k \in DOMAIN fetch_hist
        /\ fetch_hist[k].outcome = "ok"
\* an entry of ats_companies, once written, is not written again
InfoWrittenOnce ==
  \A k \in DOMAIN ats_info : k \in DOMAIN ats_info' /\ ats_info'[k] = ats_info[k]

NoClientProviders == {"icims", "taleo", "bamboohr", "jobvite"}
\* the companies with a group of ATS-origin candidates whose provider has no
\* client
NoClientCompanies ==
  { Lower(c.company_name) : c \in { d \in Range(linkedin_jobs) :
       d.job_origin = "ATS" /\ d.ats_provider \in NoClientProviders } }

ZeroResultCompanies ==
  { k \in DOMAIN fetch_hist :
      fetch_hist[k].outcome = "ok" /\ fetch_hist[k].ids = <<>> }

\* C17: when the fetch of a company completes without raising and yields no
\* posting, all the discovery-time candidates of the company are added to
\* the result, no info is written for it and it is not marked processed
C17_ZeroResultFallback ==
  \A k \in ZeroResultCompanies :
     /\ CandidatesOf(k) \subseteq Postings
     /\ k \notin DOMAIN ats_info
     /\ k \notin companies_processed
\* C17 witness: the API path and then the network interception path of a
\* company with an API client ended without a posting, and the run returned
\* its candidate
C17_Witness ==
  /\ pc = "done"
  /\ <<"acme">> \in ZeroResultCompanies
  /\ fetch_hist[<<"acme">>].paths = 1
  /\ \E p \in Postings : p.company_name = <<"ACME">> /\ p.source = "linkedin"
  /\ ats_info = <<>>

\* the companies whose fetch failed: it raised, or it returned no posting
FailedCompanies ==
  { k \in DOMAIN fetch_hist : fetch_hist[k].outcome = "raised" }
     \cup ZeroResultCompanies

\* C18: for each company whose fetch raised or returned zero postings, the
\* errors of the returned result have an entry for that company
C18_FetchFailureLogged ==
  pc = "done" => \A k \in FailedCompanies : AtsErrorsOf(k) >= 1

\* the reasons the pipeline's on-block callback was called with, in order
BlockedReasons ==
  LET idx == { i \in 1..Len(errors) : errors[i][1] = "Blocked" }
  IN [n \in 1..Cardinality(idx) |->
        errors[CHOOSE i \in idx :
                 Cardinality({ j \in idx : j <= i }) = n][2]]

\* C19: block_reason is the reason of the first classified event of the run:
\* later classified events with another reason do not change it, in the
\* run's state and in the returned one
C19_FirstReasonKept ==
  BlockedReasons # <<>> =>
     /\ result_state.block_reason = BlockedReasons[1]
     /\ scraper_state.block_reason = BlockedReasons[1]

\* a new request is started in the step: discovery hands over a further
\* candidate, the fetch of a further company is started, or the company
\* being fetched gets a further retrieval attempt (network interception
\* after the API)
StartsRequest ==
  \/ Len(linkedin_jobs') > Len(linkedin_jobs)
  \/ DOMAIN fetch_hist' # DOMAIN fetch_hist
  \/ pc = "fetch_api" /\ pc' = "fetch_net"
\* no fetch has started while discovery is not over
PhasesInSequence ==
  pc \in {"idle", "goto", "wait", "discovering", "classify"} => fetch_hist = <<>>

FirstAtsIndex(k) ==
  MinOf({ i \in 1..Len(linkedin_jobs) :
            /\ linkedin_jobs[i].job_origin = "ATS"
            /\ Lower(linkedin_jobs[i].company_name) = k })
\* the groups stand in the order in which their first candidates were
\* discovered
GroupsInDiscoveryOrder ==
  \A g, h \in 1..Len(ats_companies) :
     g < h => FirstAtsIndex(ats_companies[g].key) < FirstAtsIndex(ats_companies[h].key)
\* the fetch of the j-th group is over, and so is its fallback: the info of
\* the company is written, or its candidates were all given to _add_job
CompanyFinished(j) ==
  LET k == ats_companies[j].key
  IN /\ k \in DOMAIN fetch_hist
     /\ fetch_hist[k].outcome # "running"
     /\ \/ k \in DOMAIN ats_info
        \/ \A c \in Range(ats_companies[j].jobs) : get_job_key(c) \in seen_job_ids
\* a group whose fetch has started comes after finished groups only
OneAtATime ==
  \A j \in 1..Len(ats_companies) :
     ats_companies[j].key \in DOMAIN fetch_hist =>
        \A i \in 1..(j - 1) : CompanyFinished(i)

\* C21: in Phase 3 the company groups are processed one at a time, in the
\* order in which the first ATS-origin candidate of each company was
\* discovered: the fetch of a company has not started unless the fetch and the
\* fallback of every company discovered before it are over
C21_CompaniesInDiscoveryOrder ==
  /\ GroupsInDiscoveryOrder
  /\ OneAtATime
\* C21 witness: "Tiny" was discovered before "ACME" (the sorted order is the
\* other one), the fetch of "Tiny" is over and the fetch of "ACME" is running
C21_Witness ==
  /\ pc \in {"fetch_api", "fetch_net"}
  /\ Len(ats_companies) = 2
  /\ ats_companies[1].key = <<"tiny">>
  /\ ats_companies[2].key = <<"acme">>
  /\ fetch_hist[<<"tiny">>].outcome # "running"
  /\ fetch_hist[<<"acme">>].outcome = "running"

\* the groups that come after a group whose fetch raised are all processed
LaterGroupsProcessed ==
  (pc = "done" /\ ~result_state.is_blocked) =>
     \A j \in 1..Len(ats_companies) :
        (/\ ats_companies[j].key \in DOMAIN fetch_hist
         /\ fetch_hist[ats_companies[j].key].outcome = "raised") =>
           \A h \in (j + 1)..Len(ats_companies) : CompanyFinished(h)
\* the postings of the result stay where they are in the step
JobsKept ==
  /\ Len(jobs') >= Len(jobs)
  /\ \A i \in 1..Len(jobs) : jobs'[i] = jobs[i]

\* C22: an exception of the fetch of a company does not end Phase 3: in a
\* run that is not blocked every group that comes after the failing one is
\* processed (fetched, or given its fallback), and no step, the one that
\* handles the exception included, takes a posting out of the result
C22_ExceptionDoesNotAbort ==
  /\ []LaterGroupsProcessed
  /\ [][JobsKept]_vars
\* C22 witness: the fetch of the first company yielded a posting and then
\* raised, the second company was processed, and the run returned unblocked
\* with the posting of the first fetch
C22_Witness ==
  /\ pc = "done"
  /\ ~result_state.is_blocked
  /\ Len(ats_companies) = 2
  /\ ats_companies[1].key \in DOMAIN fetch_hist
  /\ fetch_hist[ats_companies[1].key].outcome = "raised"
  /\ fetch_hist[ats_companies[1].key].ids # <<>>
  /\ CompanyFinished(2)
  /\ \E p \in Postings :
        /\ Lower(p.company_name) = ats_companies[1].key
        /\ p.extraction_method = "network_interception"

\* ---------------------------------------------------------------- liveness
\* the steps of run() itself: the event loop resumes the coroutine whenever
\* the operation it awaits has completed, and every awaited operation
\* completes (navigation and waits have timeouts, the sequences are finite)
RunStep ==
  \/ Run \/ Goto \/ WaitDone \/ DiscoverYield \/ DiscoverEnd \/ Classify
  \/ LoopHead \/ ApiYield \/ ApiEnd \/ NetYield \/ NetEnd \/ NetRaise
\* the runs whose termination is checked: the candidates of a pipeline run,
\* and an ATS that returns postings of one id (which postings a fetch returns
\* has no part in whether it ends)
OneAtsId == { <<"1">> }
InitLive ==
  /\ InitPipeline
  /\ max_jobs = MaxJobs
  /\ max_ats_jobs_per_company = MaxAtsJobs
  /\ fetch_ats_jobs \in BOOLEAN
  /\ candidates = RunCandidates
  /\ ats_ids = OneAtsId
SpecLive == InitLive /\ [][Next]_vars /\ WF_vars(RunStep)

\* run() has returned through _finalize_result: the result holds the
\* scraper's state
Finalized == pc = "done" /\ result_state = scraper_state

InitCaps ==
  /\ InitPipeline
  /\ max_jobs \in 0..MaxJobs
  /\ max_ats_jobs_per_company \in 0..MaxAtsJobs
  /\ fetch_ats_jobs = TRUE
  /\ candidates = RunCandidates
  /\ ats_ids = OneAtsId
SpecCaps == InitCaps /\ [][Next]_vars

\* C24: discovery hands at most max_jobs candidates to run(), and at most
\* max_ats_jobs_per_company postings are consumed from the fetch of a
\* company, the API path and the network interception path taken together,
\* for every value of the caps, 0 included
C24_CapsRespected ==
  /\ Len(linkedin_jobs) <= max_jobs
  /\ ats_job_count <= max_ats_jobs_per_company
  /\ \A k \in DOMAIN fetch_hist :
        Len(fetch_hist[k].ids) <= max_ats_jobs_per_company
\* C24 witness: discovery went up to its cap, a fetch that went through both
\* paths was made with a cap of 0, and the run returned
C24_Witness ==
  /\ pc = "done"
  /\ max_jobs > 0
  /\ Len(linkedin_jobs) = max_jobs
  /\ max_ats_jobs_per_company = 0
  /\ \E k \in DOMAIN fetch_hist : fetch_hist[k].paths = 1

\* a company whose ATS-origin candidates point to two providers, and a
\* second company
PairCandidates ==
  { [company |-> <<"ACME">>, apply_url |-> GreenhouseUrl],
    [company |-> <<"Acme">>, apply_url |-> IcimsUrl],
    [company |-> <<"Tiny">>, apply_url |-> IcimsUrl] }
InitPairs ==
  /\ InitPipeline
  /\ max_jobs = MaxJobs
  /\ max_ats_jobs_per_company = MaxAtsJobs
  /\ fetch_ats_jobs = TRUE
  /\ candidates = PairCandidates
  /\ ats_ids = OneAtsId
SpecPairs == InitPairs /\ [][Next]_vars

\* the ATS-origin candidates of the run
AtsCandidates == { c \in Range(linkedin_jobs) : c.job_origin = "ATS" }
\* the (company, provider) pairs among them, and the pairs a fetch was
\* dispatched for
CandidatePairs == { << Lower(c.company_name), c.ats_provider >> : c \in AtsCandidates }
FetchedPairs == { << k, fetch_hist[k].provider >> : k \in DOMAIN fetch_hist }
\* the run returned unblocked with ATS fetching enabled
ReturnedUnblocked == pc = "done" /\ fetch_ats_jobs /\ ~result_state.is_blocked
PairsAllFetched == ReturnedUnblocked => FetchedPairs = CandidatePairs
\* a fetch that is over is not started again
FetchedOnce ==
  \A k \in DOMAIN fetch_hist :
     fetch_hist[k].outcome # "running" =>
        k \in DOMAIN fetch_hist' /\ fetch_hist'[k] = fetch_hist[k]

\* C25 as stated: in an unblocked run with fetching enabled exactly one fetch
\* is dispatched per (company, provider) pair among the ATS-origin
\* candidates: every pair is fetched, and none twice
C25_OneFetchPerPair ==
  /\ []PairsAllFetched
  /\ [][FetchedOnce]_vars

\* one fetch per company, for the provider of the first ATS-origin candidate
\* of the company
CompaniesAllFetched ==
  ReturnedUnblocked =>
     /\ DOMAIN fetch_hist = { Lower(c.company_name) : c \in AtsCandidates }
     /\ \A k \in DOMAIN fetch_hist :
           fetch_hist[k].provider = linkedin_jobs[FirstAtsIndex(k)].ats_provider

\* C25 amended: in an unblocked run with fetching enabled exactly one fetch is
\* dispatched per company (lower-cased name) among the ATS-origin candidates,
\* for the provider of the first candidate discovered for the company; no
\* company is fetched twice and none is left without a fetch
C25_OneFetchPerCompany ==
  /\ []CompaniesAllFetched
  /\ [][FetchedOnce]_vars
\* C25 witness: the candidates of a company pointed to Greenhouse and then to
\* iCIMS, and the run returned unblocked after one fetch, from Greenhouse
C25_Witness ==
  /\ ReturnedUnblocked
  /\ CandidatePairs = { << <<"acme">>, "greenhouse" >>, << <<"acme">>, "icims" >> }
  /\ FetchedPairs = { << <<"acme">>, "greenhouse" >> }

\* C26: the collected counter of the result's state equals the number of
\* postings in the result, after every _add_job during the run and in the
\* result that run() returns
C26_CollectedMatchesResult == result_state.jobs_collected = Len(jobs)

\* a company whose name contains the separator of the key string, and an
\* ATS that returns an id that contains it
KeyCandidates ==
  { [company |-> <<"Acme", ":", "b">>, apply_url |-> NoUrl],
    [company |-> <<"Acme">>, apply_url |-> GreenhouseUrl] }
KeyAtsIds == { <<"b", ":", "1">>, <<"2">> }
InitKeys ==
  /\ InitPipeline
  /\ max_jobs = MaxJobs
  /\ max_ats_jobs_per_company = MaxAtsJobs
  /\ fetch_ats_jobs = TRUE
  /\ candidates = KeyCandidates
  /\ ats_ids = KeyAtsIds
SpecKeys == InitKeys /\ [][Next]_vars

\* C27: _add_job discards a posting only when a posting with the same pair
\* (company_name lower-cased, id) is in the result: every pair that was given
\* to _add_job is the pair of a posting of the result, also when a company
\* name or an id contains ':'
C27_DistinctPairsKept ==
  DOMAIN first_added = { PairKey(p) : p \in Postings }

\* --------------------------------------------------- run() called once more
\* run() is called again on the pipeline after it returned (lines 124-134):
\* its locals are new, and _result, _seen_job_ids and _companies_processed
\* are the ones of the call before, which only start() resets. The history
\* of the fetches is the one of the current call
RunAgain ==
  /\ pc = "done"
  /\ run_count < MaxRuns
  /\ run_count' = run_count + 1
  /\ scraper_on_block' = "pipeline"
  /\ linkedin_jobs' = <<>>
  /\ ats_companies' = <<>>
  /\ comp_idx' = 0
  /\ ats_job_count' = 0
  /\ fetch_hist' = <<>>
  /\ pc' = IF scraper_state.is_blocked THEN "classify" ELSE "goto"
  /\ UNCHANGED << params, detected, limiter, scraper_state, result_state, errors,
                  result_vars, observed, first_added, blocked_at >>

NextRuns == RunStep \/ RunAgain
InitRuns ==
  /\ InitPipeline
  /\ max_jobs = MaxJobs
  /\ max_ats_jobs_per_company = MaxAtsJobs
  /\ fetch_ats_jobs = TRUE
  /\ candidates = RunCandidates
  /\ ats_ids = OneAtsId
SpecRuns == InitRuns /\ [][NextRuns]_vars

\* the step is the Phase 3 loop passing over a company marked processed
SkipStep ==
  /\ pc = "loop"
  /\ comp_idx <= Len(ats_companies)
  /\ ~result_state.is_blocked
  /\ Group.key \in companies_processed
\* no fetch is running for a company that is marked processed
NoRefetch ==
  \A k \in DOMAIN fetch_hist :
     fetch_hist[k].outcome = "running" => k \notin companies_processed

BlockFieldsAgree ==
  /\ result_state.is_blocked = scraper_state.is_blocked
  /\ result_state.block_reason = scraper_state.block_reason
\* the step in which run() returns does not change the block fields of the
\* result's state
FinalizeKeepsBlockFields ==
  (pc # "done" /\ pc' = "done") =>
     /\ result_state'.is_blocked = result_state.is_blocked
     /\ result_state'.block_reason = result_state.block_reason

\* C29: once run() has registered its block callback the state of the result
\* and the state of the scraper agree on is_blocked and block_reason, at the
\* points where run() reads is_blocked as everywhere else, and taking the
\* scraper's state at finalization changes neither field
C29_BlockFieldsAgree ==
  /\ [](scraper_on_block = "pipeline" => BlockFieldsAgree)
  /\ [][FinalizeKeepsBlockFields]_vars
\* C29 witness: two block events with different reasons were handled, and
\* the run returned with the reason of the second in its result
C29_Witness ==
  /\ pc = "done"
  /\ result_state.is_blocked
  /\ Len(BlockedReasons) = 2
  /\ BlockedReasons[1] # BlockedReasons[2]
  /\ result_state.block_reason = BlockedReasons[2]

\* no entry of errors is of a fetch
NoFetchError == \A i \in 1..Len(errors) : errors[i][1] # "ATS error"

\* C30: with fetch_ats_jobs disabled run() starts no ATS fetch, the info of
\* no company is written, no fetch error is appended to errors, and every
\* candidate consumed during discovery, of native and of ATS origin, is in
\* the postings of the returned result
C30_FetchDisabled ==
  ~fetch_ats_jobs =>
     /\ pc \notin {"loop", "fetch_api", "fetch_net"}
     /\ fetch_hist = <<>>
     /\ ats_info = <<>>
     /\ NoFetchError
     /\ pc = "done" => Range(linkedin_jobs) \subseteq Postings
\* C30 witness: a run with fetching disabled returned two candidates of the
\* same company with an ATS apply URL, as discovery gave them
C30_Witness ==
  /\ ~fetch_ats_jobs
  /\ pc = "done"
  /\ Len(linkedin_jobs) = 2
  /\ Len(ats_companies) = 1
  /\ Len(jobs) = 2
  /\ \A p \in Postings : p.job_origin = "ATS" /\ p.source = "linkedin"

====
